---- MODULE Spec2Model ----
(***************************************************************************)
(* Solar observation dashboard (Frontend/src/App.tsx, StatsOverTime.tsx).  *)
(* The model covers the App component's state, its three fetch routines,   *)
(* the user's two handlers (year button, file row toggle) and the pure     *)
(* aggregation done by EnhancedStats / DataSummary / StatsOverTime.        *)
(*                                                                         *)
(* Strings are sequences of one-character strings, so that template        *)
(* literals are concatenations and String.startsWith is a prefix test.     *)
(* JSON values of several shapes are tagged records with the same fields.  *)
(* A render follows every state update before the next event is handled,   *)
(* so a handler's closure sees the current state.                          *)
(***************************************************************************)
EXTENDS Integers, Sequences, FiniteSets, TLC

VARIABLES years, selectedYear, files, fitsData, loading, error, openItems,
          yearsInflight, filesInflight, fitsInflight, fitsCalls, clicks

vars == <<years, selectedYear, files, fitsData, loading, error, openItems,
          yearsInflight, filesInflight, fitsInflight, fitsCalls, clicks>>

\* ---------------------------------------------------------------- bounds
\* clicks (year buttons and file rows) the user makes in one session
MaxClicks == 4

\* ------------------------------------------------- the data service's side
\* year strings the service may list: "22" is a proper prefix of "223"
Y22 == <<"2", "2">>
Y223 == <<"2", "2", "3">>
YearUniverse == {Y22, Y223}
YearLists == {<<>>, <<Y22, Y223>>, <<Y223, Y22>>}

FA == <<"a">>
FB == <<"b">>
Filenames == {FA, FB}
FileLists == {<<FA, FB>>, <<FB, FA>>}

\* bodies {error: m} of non-2xx answers
ErrMsgs == {<<"File not found">>}

\* FITSData payloads of 2xx answers (histogram and image are opaque)
Stats(mn, mx, me, sd) == [min |-> mn, max |-> mx, mean |-> me, stdev |-> sd]
P1 == [stats |-> Stats(0, 10, 1, 1)]
P2 == [stats |-> Stats(1, 20, 2, 1)]
P3 == [stats |-> Stats(2, 5, 6, 2)]
Payloads == {P1, P2, P3}

FitsRequests == YearUniverse \X Filenames

\* ------------------------------------------------------------ JSON values
Undefined == [tag |-> "undefined", items |-> <<>>, error |-> <<>>]
Arr(items) == [tag |-> "array", items |-> items, error |-> <<>>]
ErrBody(m) == [tag |-> "object", items |-> <<>>, error |-> m]

\* null for error and selectedYear (both are tested for truthiness only)
NoError == <<>>
NoYear == <<>>

\* ------------------------------------------------------------ pure helpers
Range(s) == {s[i] : i \in 1..Len(s)}

\* String.prototype.startsWith
StartsWith(s, p) == Len(p) <= Len(s) /\ SubSeq(s, 1, Len(p)) = p

\* the template literal `${year}/${filename}`
MakeKey(year, filename) == year \o <<"/">> \o filename

\* fitsData[key] is truthy
HasKey(fd, key) == \E i \in 1..Len(fd) : fd[i].key = key

\* fitsData[key], for a key that is present
GetData(fd, key) == fd[CHOOSE i \in 1..Len(fd) : fd[i].key = key].data

\* variant: a new key is put first
SetFitsEntryFirst(prev, key, data) ==
    IF HasKey(prev, key)
    THEN [i \in 1..Len(prev) |->
             IF prev[i].key = key THEN [key |-> key, data |-> data] ELSE prev[i]]
    ELSE <<[key |-> key, data |-> data]>> \o prev

\* prev => ({ ...prev, [key]: data }): an own key keeps its position and
\* takes the new value, a new key goes last
SetFitsEntry(prev, key, data) ==
    IF HasKey(prev, key)
    THEN [i \in 1..Len(prev) |->
             IF prev[i].key = key THEN [key |-> key, data |-> data] ELSE prev[i]]
    ELSE Append(prev, [key |-> key, data |-> data])

\* variant: the new map holds the new entry only, the others are lost
SetFilesEntryOnly(prev, year, data) ==
    [y \in DOMAIN prev |-> IF y = year THEN data ELSE Undefined]

\* prev => ({ ...prev, [year]: data })
SetFilesEntry(prev, year, data) == [prev EXCEPT ![year] = data]

\* -------------------------------------------------------------- JS numbers
Finite(n) == [kind |-> "finite", num |-> n, den |-> 1]
NaN == [kind |-> "NaN", num |-> 0, den |-> 1]
PosInfinity == [kind |-> "Infinity", num |-> 1, den |-> 1]
NegInfinity == [kind |-> "-Infinity", num |-> -1, den |-> 1]

\* a / b for an integer a and a length b (b >= 0), kept as a fraction
Divide(a, b) ==
    IF b # 0 THEN [kind |-> "finite", num |-> a, den |-> b]
    ELSE IF a = 0 THEN NaN
    ELSE IF a > 0 THEN PosInfinity ELSE NegInfinity

\* Math.max(...xs): -Infinity for no arguments
MathMax(xs) ==
    IF Len(xs) = 0 THEN NegInfinity
    ELSE Finite(CHOOSE m \in Range(xs) : \A x \in Range(xs) : x <= m)

\* Math.min(...xs): Infinity for no arguments
MathMin(xs) ==
    IF Len(xs) = 0 THEN PosInfinity
    ELSE Finite(CHOOSE m \in Range(xs) : \A x \in Range(xs) : m <= x)

\* data.reduce((acc, curr) => acc + curr.stats.mean, 0)
RECURSIVE ReduceMean(_, _, _)
ReduceMean(data, i, acc) ==
    IF i > Len(data) THEN acc
    ELSE ReduceMean(data, i + 1, acc + data[i].stats.mean)

\* ------------------------------------------------------------- aggregation
\* Object.entries(fitsData).filter(([key]) => key.startsWith(selectedYear)):
\* the entries in insertion order whose key starts with the selected year
FilterEntries(fd, year) == SelectSeq(fd, LAMBDA e : StartsWith(e.key, year))

\* .map(([_, data]) => data)
DataArray(fd, year) ==
    LET kept == FilterEntries(fd, year)
    IN [i \in 1..Len(kept) |-> kept[i].data]

\* variant: the maximum is taken over stats.min
DataSummaryMaxOfMin(data) ==
    [totalObservations |-> Len(data),
     averageIntensity |-> Divide(ReduceMean(data, 1, 0), Len(data)),
     maxIntensity |-> MathMax([i \in 1..Len(data) |-> data[i].stats.min]),
     minIntensity |-> MathMin([i \in 1..Len(data) |-> data[i].stats.min])]

\* variant: the maximum is taken from the first record only
DataSummaryFirstMax(data) ==
    [totalObservations |-> Len(data),
     averageIntensity |-> Divide(ReduceMean(data, 1, 0), Len(data)),
     maxIntensity |-> IF Len(data) = 0 THEN NegInfinity
                      ELSE Finite(data[1].stats.max),
     minIntensity |-> MathMin([i \in 1..Len(data) |-> data[i].stats.min])]

DataSummary(data) ==
    [totalObservations |-> Len(data),
     averageIntensity |-> Divide(ReduceMean(data, 1, 0), Len(data)),
     maxIntensity |-> MathMax([i \in 1..Len(data) |-> data[i].stats.max]),
     minIntensity |-> MathMin([i \in 1..Len(data) |-> data[i].stats.min])]

\* data carries no observation_date, so every label is that of new Date(undefined)
StatsOverTime(data) ==
    [i \in 1..Len(data) |->
        [date |-> "Invalid Date",
         min |-> data[i].stats.min,
         max |-> data[i].stats.max,
         mean |-> data[i].stats.mean,
         stdev |-> data[i].stats.stdev]]

\* TRUE when EnhancedStats returns null instead of the two panels
EnhancedStatsIsNull(year, fd) == Len(DataArray(fd, year)) = 0

EnhancedStats(year, fd) ==
    [isNull |-> EnhancedStatsIsNull(year, fd),
     summary |-> DataSummary(DataArray(fd, year)),
     series |-> StatsOverTime(DataArray(fd, year))]

\* ------------------------------------------------------------- rendering
\* App's normal branch evaluates years.map and, per year, files?.map: either
\* throws a TypeError on a value that is not an array, which unmounts the tree
RenderThrows(ys, fs, err) ==
    /\ err = NoError
    /\ \/ ys.tag # "array"
       \/ \E y \in Range(ys.items) : fs[y].tag = "object"

Unmounted == RenderThrows(years, files, error)

\* the year buttons and the accordions are on screen
Interactive == error = NoError /\ ~Unmounted

\* App renders EnhancedStats in its normal branch once a year is selected
StatsRendered == Interactive /\ selectedYear # NoYear

\* Accordion state lives only while the accordions are rendered
KeepOpenItems(ys, fs, err, oi) ==
    IF err = NoError /\ ~RenderThrows(ys, fs, err) THEN oi ELSE {}

\* ------------------------------------------------------------------ Init
Init ==
    /\ years = Arr(<<>>)
    /\ selectedYear = NoYear
    /\ files = [y \in YearUniverse |-> Undefined]
    /\ fitsData = <<>>
    /\ loading = TRUE
    /\ error = NoError
    /\ openItems = {}
    /\ yearsInflight = TRUE
    /\ filesInflight = [y \in YearUniverse |-> 0]
    /\ fitsInflight = [r \in FitsRequests |-> 0]
    /\ fitsCalls = [r \in FitsRequests |-> 0]
    /\ clicks = 0

\* ------------------------------------------------------------- fetchYears
\* variant: the last element of the list is selected
FetchYearsOkSelectsLast(data) ==
    /\ yearsInflight
    /\ yearsInflight' = FALSE
    /\ years' = Arr(data)
    /\ IF Len(data) > 0
       THEN /\ selectedYear' = data[Len(data)]
            /\ filesInflight' = [filesInflight EXCEPT ![data[Len(data)]] = @ + 1]
       ELSE UNCHANGED <<selectedYear, filesInflight>>
    /\ UNCHANGED <<clicks, fitsCalls, files, fitsData, loading, error,
                   openItems, fitsInflight>>

\* 2xx answer with a JSON array: setYears(data); a non-empty list selects its
\* first element, and the selectedYear effect then calls fetchFilesForYear
FetchYearsOk(data) ==
    /\ yearsInflight
    /\ yearsInflight' = FALSE
    /\ years' = Arr(data)
    /\ IF Len(data) > 0
       THEN /\ selectedYear' = data[1]
            /\ filesInflight' = [filesInflight EXCEPT ![data[1]] = @ + 1]
       ELSE UNCHANGED <<selectedYear, filesInflight>>
    /\ UNCHANGED <<clicks, fitsCalls, files, fitsData, loading, error,
                   openItems, fitsInflight>>

\* an answer whose JSON body is {error: m}: response.ok is not looked at, the
\* body is stored as the year list and has no length
FetchYearsErrBody(m) ==
    /\ yearsInflight
    /\ yearsInflight' = FALSE
    /\ years' = ErrBody(m)
    /\ openItems' = KeepOpenItems(years', files, error, openItems)
    /\ UNCHANGED <<clicks, fitsCalls, selectedYear, files, fitsData, loading, error,
                   filesInflight, fitsInflight>>

\* fetch or response.json() rejects
FetchYearsFail ==
    /\ yearsInflight
    /\ yearsInflight' = FALSE
    /\ error' = <<"Failed to fetch years">>
    /\ openItems' = KeepOpenItems(years, files, error', openItems)
    /\ UNCHANGED <<clicks, fitsCalls, years, selectedYear, files, fitsData, loading,
                   filesInflight, fitsInflight>>

\* ------------------------------------------------------- year button click
\* onClick={() => setSelectedYear(year)}; the effect on [selectedYear] runs
\* fetchFilesForYear whenever the value changed (an equal value re-renders
\* nothing and runs no effect)
SelectYear(y) ==
    /\ Interactive
    /\ y \in Range(years.items)
    /\ y # selectedYear
    /\ clicks < MaxClicks
    /\ clicks' = clicks + 1
    /\ selectedYear' = y
    /\ filesInflight' = [filesInflight EXCEPT ![y] = @ + 1]
    /\ UNCHANGED <<years, files, fitsData, loading, error, openItems,
                   yearsInflight, fitsInflight, fitsCalls>>

\* ------------------------------------------------------- fetchFilesForYear
\* the stored value is whatever JSON came back; response.ok is not looked at
FilesStored(prev, year, data) == SetFilesEntry(prev, year, data)

\* 2xx answer with the year's filename list
FetchFilesOk(y, list) ==
    /\ filesInflight[y] > 0
    /\ filesInflight' = [filesInflight EXCEPT ![y] = @ - 1]
    /\ IF Unmounted
       THEN UNCHANGED <<files, openItems>>
       ELSE /\ files' = FilesStored(files, y, Arr(list))
            /\ openItems' = KeepOpenItems(years, files', error, openItems)
    /\ UNCHANGED <<clicks, fitsCalls, years, selectedYear, fitsData, loading,
                   error, yearsInflight, fitsInflight>>

\* non-2xx answer with body {error: m}: response.json() resolves, nothing
\* throws, and the body is stored like a list
FetchFilesErrBody(y, m) ==
    /\ filesInflight[y] > 0
    /\ filesInflight' = [filesInflight EXCEPT ![y] = @ - 1]
    /\ IF Unmounted
       THEN UNCHANGED <<files, openItems>>
       ELSE /\ files' = FilesStored(files, y, ErrBody(m))
            /\ openItems' = KeepOpenItems(years, files', error, openItems)
    /\ UNCHANGED <<clicks, fitsCalls, years, selectedYear, fitsData, loading,
                   error, yearsInflight, fitsInflight>>

\* fetch or response.json() rejects
FetchFilesFail(y) ==
    /\ filesInflight[y] > 0
    /\ filesInflight' = [filesInflight EXCEPT ![y] = @ - 1]
    /\ IF Unmounted
       THEN UNCHANGED <<error, openItems>>
       ELSE /\ error' = <<"Failed to fetch files for year ">> \o y
            /\ openItems' = KeepOpenItems(years, files, error', openItems)
    /\ UNCHANGED <<clicks, fitsCalls, years, selectedYear, files, fitsData, loading,
                   yearsInflight, fitsInflight>>

\* ------------------------------------------------------------ fetchFITSData
\* fetchFITSData's synchronous part: TRUE when the call goes on to the network
FetchFITSDispatches(fd, year, filename) == ~HasKey(fd, MakeKey(year, filename))

\* variant: both presence checks left out
ToggleItemFetchesAlways(fd, year, filename) == TRUE

\* toggleItem calls fetchFITSData when the cache has no entry, and
\* fetchFITSData returns early when it has one
ToggleItemFetches(fd, year, filename) ==
    /\ ~HasKey(fd, MakeKey(year, filename))
    /\ FetchFITSDispatches(fd, year, filename)

\* the row of filename is on screen in the accordion of year: only the
\* selected year's block is displayed, and only while App shows no error
CanToggle(y, f) ==
    /\ Interactive
    /\ y = selectedYear
    /\ y \in Range(years.items)
    /\ files[y].tag = "array"
    /\ f \in Range(files[y].items)

\* Accordion.toggleItem: flip the row, and fetch when the cache has no entry
ToggleItem(y, f) ==
    /\ CanToggle(y, f)
    /\ clicks < MaxClicks
    /\ clicks' = clicks + 1
    /\ openItems' = IF <<y, f>> \in openItems
                    THEN openItems \ {<<y, f>>}
                    ELSE openItems \cup {<<y, f>>}
    /\ IF ToggleItemFetches(fitsData, y, f)
       THEN /\ loading' = TRUE
            /\ fitsInflight' = [fitsInflight EXCEPT ![<<y, f>>] = @ + 1]
            /\ fitsCalls' = [fitsCalls EXCEPT ![<<y, f>>] = @ + 1]
       ELSE UNCHANGED <<loading, fitsInflight, fitsCalls>>
    /\ UNCHANGED <<years, selectedYear, files, fitsData, error,
                   yearsInflight, filesInflight>>

\* the cache after a 2xx answer with body data
FitsStored(prev, key, data) == SetFitsEntry(prev, key, data)

\* response.ok: setFitsData(prev => ...), then finally setLoading(false)
FetchFITSOk(r, data) ==
    /\ fitsInflight[r] > 0
    /\ fitsInflight' = [fitsInflight EXCEPT ![r] = @ - 1]
    /\ IF Unmounted
       THEN UNCHANGED <<fitsData, loading>>
       ELSE /\ fitsData' = FitsStored(fitsData, MakeKey(r[1], r[2]), data)
            /\ loading' = FALSE
    /\ UNCHANGED <<clicks, fitsCalls, years, selectedYear, files, error, openItems,
                   yearsInflight, filesInflight>>

\* variant: the failure path writes an entry under the key
FitsAfterFailureStored(prev, key) == SetFitsEntry(prev, key, P1)

\* the cache after an answer that is not ok, or a rejected fetch
FitsAfterFailure(prev, key) == prev

\* variant: the service's message is replaced by the generic one
FetchFITSErrBodyGeneric(r, m) ==
    /\ fitsInflight[r] > 0
    /\ fitsInflight' = [fitsInflight EXCEPT ![r] = @ - 1]
    /\ IF Unmounted
       THEN UNCHANGED <<fitsData, loading, error, openItems>>
       ELSE /\ fitsData' = FitsAfterFailure(fitsData, MakeKey(r[1], r[2]))
            /\ error' = <<"Failed to fetch FITS data">>
            /\ loading' = FALSE
            /\ openItems' = KeepOpenItems(years, files, error', openItems)
    /\ UNCHANGED <<clicks, fitsCalls, years, selectedYear, files, yearsInflight,
                   filesInflight>>

\* !response.ok: setError(data.error), then finally setLoading(false)
FetchFITSErrBody(r, m) ==
    /\ fitsInflight[r] > 0
    /\ fitsInflight' = [fitsInflight EXCEPT ![r] = @ - 1]
    /\ IF Unmounted
       THEN UNCHANGED <<fitsData, loading, error, openItems>>
       ELSE /\ fitsData' = FitsAfterFailure(fitsData, MakeKey(r[1], r[2]))
            /\ error' = m
            /\ loading' = FALSE
            /\ openItems' = KeepOpenItems(years, files, error', openItems)
    /\ UNCHANGED <<clicks, fitsCalls, years, selectedYear, files, yearsInflight, filesInflight>>

\* variant: no finally block, loading is left as it is
FetchFITSFailNoFinally(r) ==
    /\ fitsInflight[r] > 0
    /\ fitsInflight' = [fitsInflight EXCEPT ![r] = @ - 1]
    /\ IF Unmounted
       THEN UNCHANGED <<fitsData, error, openItems>>
       ELSE /\ fitsData' = FitsAfterFailure(fitsData, MakeKey(r[1], r[2]))
            /\ error' = <<"Failed to fetch FITS data">>
            /\ openItems' = KeepOpenItems(years, files, error', openItems)
    /\ UNCHANGED <<clicks, fitsCalls, years, selectedYear, files, loading,
                   yearsInflight, filesInflight>>

\* fetch or response.json() rejects: catch, then finally setLoading(false)
FetchFITSFail(r) ==
    /\ fitsInflight[r] > 0
    /\ fitsInflight' = [fitsInflight EXCEPT ![r] = @ - 1]
    /\ IF Unmounted
       THEN UNCHANGED <<fitsData, loading, error, openItems>>
       ELSE /\ fitsData' = FitsAfterFailure(fitsData, MakeKey(r[1], r[2]))
            /\ error' = <<"Failed to fetch FITS data">>
            /\ loading' = FALSE
            /\ openItems' = KeepOpenItems(years, files, error', openItems)
    /\ UNCHANGED <<clicks, fitsCalls, years, selectedYear, files, yearsInflight, filesInflight>>

\* ------------------------------------------------------------------- Next
Next ==
    \/ \E data \in YearLists : FetchYearsOk(data)
    \/ \E m \in ErrMsgs : FetchYearsErrBody(m)
    \/ FetchYearsFail
    \/ \E y \in YearUniverse : SelectYear(y)
    \/ \E y \in YearUniverse, list \in FileLists : FetchFilesOk(y, list)
    \/ \E y \in YearUniverse, m \in ErrMsgs : FetchFilesErrBody(y, m)
    \/ \E y \in YearUniverse : FetchFilesFail(y)
    \/ \E y \in YearUniverse, f \in Filenames : ToggleItem(y, f)
    \/ \E r \in FitsRequests, data \in Payloads : FetchFITSOk(r, data)
    \/ \E r \in FitsRequests, m \in ErrMsgs : FetchFITSErrBody(r, m)
    \/ \E r \in FitsRequests : FetchFITSFail(r)

Spec == Init /\ [][Next]_vars

TypeOK ==
    /\ years.tag \in {"array", "object"}
    /\ selectedYear \in YearUniverse \cup {NoYear}
    /\ \A y \in YearUniverse : files[y].tag \in {"undefined", "array", "object"}
    /\ \A i \in 1..Len(fitsData) : fitsData[i].data \in Payloads
    /\ loading \in BOOLEAN
    /\ openItems \subseteq FitsRequests
    /\ yearsInflight \in BOOLEAN
    /\ clicks \in 0..MaxClicks
    /\ \A r \in FitsRequests : fitsInflight[r] <= fitsCalls[r]

\* ================================================================ claims
\* the year component of a key: the text before its first "/"
KeyYear(key) ==
    LET i == CHOOSE i \in 1..Len(key) :
                 key[i] = "/" /\ \A j \in 1..(i - 1) : key[j] # "/"
    IN SubSeq(key, 1, i - 1)

KeyOf(r) == MakeKey(r[1], r[2])

RECURSIVE SetSum(_, _)
SetSum(f, S) ==
    IF S = {} THEN 0
    ELSE LET x == CHOOSE x \in S : TRUE IN f[x] + SetSum(f, S \ {x})

\* a per-file retrieval has ended in failure and App has recorded it
FitsFailed == error \in ErrMsgs \cup {<<"Failed to fetch FITS data">>}

\* C1: in every reachable state at most one retrieval per observation key is
\* in flight (a second request for a loading key dispatches nothing).
C1_OneRetrievalPerKey == \A r \in FitsRequests : fitsInflight[r] <= 1

\* C2: once the cache holds a record for a key, no step dispatches another
\* external call for that key.
C2_NoRefetchAfterLoad ==
    [][\A r \in FitsRequests :
          HasKey(fitsData, KeyOf(r)) => fitsCalls'[r] = fitsCalls[r]]_vars

\* a row was clicked twice, the second time after its key had been loaded
C2_Witness ==
    \E r \in FitsRequests :
        /\ HasKey(fitsData, KeyOf(r))
        /\ fitsCalls[r] = 1
        /\ r \notin openItems
        /\ clicks = 2
        /\ Interactive

\* C3: once fitsData holds a record under a key, every later state holds the
\* same record under that key.
C3_LoadedRecordImmutable ==
    [][\A i \in 1..Len(fitsData) :
          /\ HasKey(fitsData', fitsData[i].key)
          /\ GetData(fitsData', fitsData[i].key) = fitsData[i].data]_vars

\* C4: after a per-file retrieval has failed, the user can still issue a
\* request for some file of the catalog.
C4_FailureDoesNotBlock ==
    FitsFailed => \E y \in YearUniverse, f \in Filenames : CanToggle(y, f)

\* C5: a failing per-file retrieval leaves fitsData exactly as it was, so the
\* aggregate input of the failed key's year keeps every loaded entry of that
\* year and has no entry for a key that was not loaded.
C5_FailureLeavesCache ==
    [][\A r \in FitsRequests :
          (FetchFITSFail(r) \/ \E m \in ErrMsgs : FetchFITSErrBody(r, m)) =>
              /\ fitsData' = fitsData
              /\ ~HasKey(fitsData, KeyOf(r)) =>
                     ~HasKey(FilterEntries(fitsData', r[1]), KeyOf(r))
              /\ \A i \in 1..Len(fitsData) :
                     KeyYear(fitsData[i].key) = r[1] =>
                         fitsData[i] \in Range(FilterEntries(fitsData', r[1]))]_vars

\* file A of year "22" is loaded, file B of the same year was requested once
\* and its retrieval ended with the service's error message
C5_Witness ==
    /\ HasKey(fitsData, MakeKey(Y22, FA))
    /\ ~HasKey(fitsData, MakeKey(Y22, FB))
    /\ fitsCalls[<<Y22, FB>>] = 1
    /\ fitsInflight[<<Y22, FB>>] = 0
    /\ error \in ErrMsgs

\* C6: the entries fed to the aggregate for the selected year are exactly the
\* loaded entries whose key's year component equals the selected year.
C6_FilterByYearEquality ==
    StatsRendered =>
        {e.key : e \in Range(FilterEntries(fitsData, selectedYear))}
            = {fitsData[i].key : i \in
                  {j \in 1..Len(fitsData) : KeyYear(fitsData[j].key) = selectedYear}}

\* C7: once files[y] has been stored, no step dispatches a file-list retrieval
\* for y and no step replaces files[y].
C7_CatalogPopulatedOnce ==
    [][\A y \in YearUniverse :
          files[y].tag # "undefined" =>
              /\ filesInflight'[y] <= filesInflight[y]
              /\ files'[y] = files[y]]_vars

\* C8: nothing but a filename list is ever stored under a year (a retrieval
\* answered with an error body leaves the year absent).
C8_OnlyFilenameListsStored == \A y \in YearUniverse : files[y].tag # "object"

\* C9: for every year whose aggregate input is not empty, the summary has
\* count = number of included records, avgMean = sum of means / count,
\* maxMax = greatest stats.max and minMin = least stats.min of those records.
C9_SummaryCorrect ==
    \A y \in YearUniverse :
        LET S == {i \in 1..Len(fitsData) : StartsWith(fitsData[i].key, y)}
            sm == DataSummary(DataArray(fitsData, y))
            means == [i \in S |-> fitsData[i].data.stats.mean]
        IN S # {} =>
            /\ sm.totalObservations = Cardinality(S)
            /\ sm.averageIntensity.kind = "finite"
            /\ sm.averageIntensity.num * Cardinality(S)
                  = sm.averageIntensity.den * SetSum(means, S)
            /\ sm.maxIntensity.kind = "finite"
            /\ \E i \in S : fitsData[i].data.stats.max = sm.maxIntensity.num
            /\ \A i \in S : fitsData[i].data.stats.max <= sm.maxIntensity.num
            /\ sm.minIntensity.kind = "finite"
            /\ \E i \in S : fitsData[i].data.stats.min = sm.minIntensity.num
            /\ \A i \in S : fitsData[i].data.stats.min >= sm.minIntensity.num

\* three records with means 1, 2, 6 and maxes 10, 20, 5 are summarised:
\* the average is 9/3 = 3 and the maximum 20
C9_Witness ==
    /\ Len(DataArray(fitsData, Y22)) = 3
    /\ Range(DataArray(fitsData, Y22)) = Payloads
    /\ DataSummary(DataArray(fitsData, Y22)).averageIntensity
           = [kind |-> "finite", num |-> 9, den |-> 3]
    /\ DataSummary(DataArray(fitsData, Y22)).maxIntensity = Finite(20)
    /\ DataSummary(DataArray(fitsData, Y22)).minIntensity = Finite(0)

\* C10: whenever the cache holds no loaded entry of the selected year, the
\* aggregate is the explicit empty result.
C10_EmptyResultWhenNothingLoaded ==
    (StatsRendered /\ \A i \in 1..Len(fitsData) :
                          KeyYear(fitsData[i].key) # selectedYear)
        => EnhancedStats(selectedYear, fitsData).isNull

\* the filename component of a key: the text after its first "/"
KeyFile(key) == SubSeq(key, Len(KeyYear(key)) + 2, Len(key))

\* the keys of a sequence of cache entries, in order
KeysOf(entries) == [i \in 1..Len(entries) |-> entries[i].key]

\* position of filename f in the list items (0 when absent)
IndexIn(items, f) ==
    IF f \in Range(items) THEN CHOOSE i \in 1..Len(items) : items[i] = f ELSE 0

\* s is an initial part of t
IsPrefix(s, t) == Len(s) <= Len(t) /\ s = SubSeq(t, 1, Len(s))

\* the series has one point per entry, in the entries' order, with its stats
PointsMatch(series, entries) ==
    /\ Len(series) = Len(entries)
    /\ \A i \in 1..Len(entries) :
           /\ series[i].min = entries[i].data.stats.min
           /\ series[i].max = entries[i].data.stats.max
           /\ series[i].mean = entries[i].data.stats.mean
           /\ series[i].stdev = entries[i].data.stats.stdev

\* C11 (as claimed): the series points of the selected year appear in the
\* order of their filenames in the catalog list files[year].
C11_SeriesFollowsCatalog ==
    (StatsRendered /\ files[selectedYear].tag = "array") =>
        LET own == SelectSeq(FilterEntries(fitsData, selectedYear),
                             LAMBDA e : KeyYear(e.key) = selectedYear)
            items == files[selectedYear].items
        IN \A i, j \in 1..Len(own) :
               i < j => IndexIn(items, KeyFile(own[i].key))
                           < IndexIn(items, KeyFile(own[j].key))

\* C11 (amended): the series of a year has one point per entry of the
\* aggregate input, in the order in which the keys entered the cache: a step
\* keeps the points already there in place and puts new ones after them.
C11_SeriesInsertionOrder ==
    [][fitsData' # fitsData => \A y \in YearUniverse :
          /\ IsPrefix(KeysOf(FilterEntries(fitsData, y)),
                      KeysOf(FilterEntries(fitsData', y)))
          /\ \A series \in {StatsOverTime(DataArray(fitsData', y))},
                entries \in {FilterEntries(fitsData', y)} :
                 PointsMatch(series, entries)]_vars

\* the catalog lists a before b, and the cache (hence the series) holds b's
\* record before a's
C11_Witness ==
    /\ StatsRendered
    /\ selectedYear = Y22
    /\ files[Y22] = Arr(<<FA, FB>>)
    /\ KeysOf(FilterEntries(fitsData, Y22)) = <<MakeKey(Y22, FB), MakeKey(Y22, FA)>>
    /\ Len(StatsOverTime(DataArray(fitsData, Y22))) = 2

\* C12: while App is mounted, a per-file retrieval for key k answered non-2xx
\* with body {error: m} leaves fitsData as it was (k gets no entry) and
\* records exactly m as the error; a transport failure leaves fitsData as it
\* was and records an error.
C12_ErrorOutcome ==
    [][~Unmounted => \A r \in FitsRequests :
          /\ \A m \in ErrMsgs :
                 FetchFITSErrBody(r, m) =>
                     /\ error' = m
                     /\ fitsData' = fitsData
                     /\ HasKey(fitsData', KeyOf(r)) = HasKey(fitsData, KeyOf(r))
          /\ FetchFITSFail(r) =>
                 /\ error' # NoError
                 /\ fitsData' = fitsData
                 /\ HasKey(fitsData', KeyOf(r)) = HasKey(fitsData, KeyOf(r))]_vars

\* the only retrieval made so far was answered with the service's message:
\* the cache is empty and the message is the recorded error
C12_Witness ==
    /\ error \in ErrMsgs
    /\ fitsData = <<>>
    /\ \E r \in FitsRequests :
           /\ fitsCalls[r] = 1
           /\ fitsInflight[r] = 0
           /\ \A q \in FitsRequests \ {r} : fitsCalls[q] = 0

\* ------------------------------------------- a service that breaks the contract
\* a 2xx body whose stats lack mean; rendering it throws nowhere
\* (Object.entries(stats) has three entries, NaN.toFixed(2) is "NaN")
PMissingMean == [stats |-> [min |-> 0, max |-> 10, stdev |-> 1]]
MalformedPayloads == {PMissingMean}

\* fetchFITSData hands any 2xx body to setFitsData
NextMalformed ==
    \/ Next
    \/ \E r \in FitsRequests, data \in MalformedPayloads : FetchFITSOk(r, data)

SpecMalformed == Init /\ [][NextMalformed]_vars

\* the four statistics are present and are numbers
NumericStats(data) ==
    /\ {"min", "max", "mean", "stdev"} \subseteq DOMAIN data.stats
    /\ \A f \in DOMAIN data.stats : data.stats[f] \in Int

\* C13: every record present in the cache has four numeric statistics (a 2xx
\* answer with a missing or non-numeric statistic is never stored).
C13_CacheRecordsNumeric ==
    \A i \in 1..Len(fitsData) : NumericStats(fitsData[i].data)

\* C14: a key whose retrieval failed (requested, nothing in flight any more,
\* not loaded, the failure recorded) can be requested again by the user.
C14_FailedKeyCanBeRequestedAgain ==
    \A r \in FitsRequests :
        (/\ FitsFailed
         /\ fitsCalls[r] >= 1
         /\ fitsInflight[r] = 0
         /\ ~HasKey(fitsData, KeyOf(r))) => CanToggle(r[1], r[2])

\* C15: the step on which a non-empty year list arrives makes its first
\* element the selected year; a step dispatches a file-list retrieval only
\* for the year it newly selects, one retrieval, and never before the year
\* list has arrived.
C15_DefaultSelectionAndFetch ==
    [][/\ (yearsInflight /\ ~yearsInflight' /\ years'.tag = "array"
              /\ Len(years'.items) > 0) => selectedYear' = years'.items[1]
       /\ \A y \in YearUniverse :
              filesInflight'[y] > filesInflight[y] =>
                  /\ y = selectedYear'
                  /\ selectedYear' # selectedYear
                  /\ ~yearsInflight'
                  /\ years'.tag = "array"
                  /\ y \in Range(years'.items)
                  /\ filesInflight'[y] = filesInflight[y] + 1
                  /\ \A z \in YearUniverse \ {y} :
                         filesInflight'[z] <= filesInflight[z]]_vars

\* a list of two years has arrived: its first element is selected and the
\* only file-list retrieval in flight is the one for that year
C15_Witness ==
    /\ ~yearsInflight
    /\ years.tag = "array"
    /\ Len(years.items) = 2
    /\ selectedYear = years.items[1]
    /\ filesInflight[years.items[1]] = 1
    /\ filesInflight[years.items[2]] = 0
    /\ clicks = 0

\* the cache with its entries at positions i and i + 1 exchanged: what it
\* would hold had the two retrievals completed in the other order
SwapAt(fd, i) ==
    [j \in 1..Len(fd) |->
        IF j = i THEN fd[i + 1] ELSE IF j = i + 1 THEN fd[i] ELSE fd[j]]

C17_LoadingWhileInflight ==
    (~Unmounted /\ \E r \in FitsRequests : fitsInflight[r] > 0) => loading

\* C18: a successful per-file completion for key k stores its record under
\* k, leaves every other entry of fitsData as it was, adds no other key and
\* leaves files unchanged; a file-list completion for year y stores its body
\* under y, leaves files[z] unchanged for every other year z and leaves
\* fitsData unchanged.
C18_PerKeyFrame ==
    [][/\ \A r \in FitsRequests, data \in Payloads :
              FetchFITSOk(r, data) =>
                  /\ files' = files
                  /\ ~Unmounted => /\ HasKey(fitsData', KeyOf(r))
                                   /\ GetData(fitsData', KeyOf(r)) = data
                  /\ \A i \in 1..Len(fitsData) :
                         fitsData[i].key # KeyOf(r) =>
                             /\ HasKey(fitsData', fitsData[i].key)
                             /\ GetData(fitsData', fitsData[i].key)
                                    = fitsData[i].data
                  /\ \A j \in 1..Len(fitsData') :
                         \/ fitsData'[j].key = KeyOf(r)
                         \/ HasKey(fitsData, fitsData'[j].key)
       /\ \A y \in YearUniverse, body \in {Arr(l) : l \in FileLists}
                                          \cup {ErrBody(m) : m \in ErrMsgs} :
              (\/ body.tag = "array" /\ FetchFilesOk(y, body.items)
               \/ body.tag = "object" /\ FetchFilesErrBody(y, body.error)) =>
                  /\ fitsData' = fitsData
                  /\ ~Unmounted => files'[y] = body
                  /\ \A z \in YearUniverse \ {y} : files'[z] = files[z]]_vars

\* both years have their catalog and a file of each year is loaded
C18_Witness ==
    /\ files[Y22].tag = "array"
    /\ files[Y223].tag = "array"
    /\ HasKey(fitsData, MakeKey(Y22, FA))
    /\ HasKey(fitsData, MakeKey(Y223, FA))

\* ------------------------------------------------ every retrieval settles
\* the per-file retrieval r settles, with any of its three outcomes
FitsSettles(r) ==
    \/ \E data \in Payloads : FetchFITSOk(r, data)
    \/ \E m \in ErrMsgs : FetchFITSErrBody(r, m)
    \/ FetchFITSFail(r)

\* the data service answers or the transport fails: no retrieval stays
\* pending for ever
SpecLive ==
    /\ Init
    /\ [][Next]_vars
    /\ \A r \in FitsRequests : WF_vars(FitsSettles(r))

SomeFitsInflight == \E r \in FitsRequests : fitsInflight[r] > 0

\* C19: while App is mounted, a state in which a per-file request has set
\* loading and its retrieval is pending is followed by a state in which
\* loading is false; and once per-file retrievals have been made and all have
\* settled, loading is false.
C19_LoadingReleased ==
    /\ (loading /\ SomeFitsInflight /\ ~Unmounted) ~> (~loading \/ Unmounted)
    /\ []((/\ ~Unmounted
           /\ ~SomeFitsInflight
           /\ \E r \in FitsRequests : fitsCalls[r] > 0) => ~loading)

\* a retrieval was dispatched (which set loading) and has ended in a
\* failure: nothing is in flight and loading is false again
C19_Witness ==
    /\ FitsFailed
    /\ ~SomeFitsInflight
    /\ \E r \in FitsRequests : fitsCalls[r] > 0
    /\ ~loading

====
